---- MODULE Spec2Model ----
\* Caching image proxy (src/src/main.rs): the Image Cache, the Magic Resolver,
\* the Content Store and the request handler proxy_img, as a state machine.
\*
\* Strings are sequences of tokens; a token is either one delimiter character
\* ("/", ",", ";", ":") or a chunk that holds no delimiter, so that the
\* concatenation of the tokens is the string and split_once / splitn /
\* starts_with act on it exactly as they act on the characters.
\*
\* Time is the wall clock in whole seconds (Utc::now()).  Every task runs on
\* the tokio runtime in parallel with the others; a step of the model is the
\* code of one task between two points where it touches shared state (a cache
\* mutex, the disk) or waits for the network.
EXTENDS Integers, Sequences, FiniteSets, TLC

VARIABLES now, imgs, magic, disk, tasks, refresh, last, locks

vars == <<now, imgs, magic, disk, tasks, refresh, last, locks>>

-----------------------------------------------------------------------------
\* Program constants

MAGIC_CACHE_DURATION_SECONDS == 1 * 60 * 60
REGULAR_CACHE_DURATION_SECONDS == 30 * 24 * 60 * 60
MAX_REFRESH_TIMEOUT == 60 * 60
PURGE_MAGIC_KEYWORD == <<"purge">>
MagicKeyword == <<"magic">>
DataImagePrefix == <<"data", ":", "image", "/">>
NanosPerSecond == 1000000000

-----------------------------------------------------------------------------
\* Bounds of the model

\* Seconds sampled after the start of each epoch (0 .. MaxSmall).
MaxSmall == 1
\* Upper bound on the background refreshes in flight for one magic URL.
MaxRefresh == 2

\* The longest attempts history an entry starts with, where it is drawn.
MaxAttempts == 66

\* The clock is sampled around two instants: process start and the first
\* second at which a magic entry recorded at process start is stale.
Epochs == {0, MAGIC_CACHE_DURATION_SECONDS + 1}
Times == {e + s : e \in Epochs, s \in 0..MaxSmall}

Tasks == {"t1", "t2"}

-----------------------------------------------------------------------------
\* Strings

U1 == <<"u1">>
M1 == <<"m1">>
DataPng == <<"data", ":", "image", "/", "png", ";", "base64", ",", "QUJD">>
DataNoComma == <<"data", ":", "image", "/", "png">>
DataBadB64 == <<"data", ":", "image", "/", "gif", ",", "!!">>

HasTok(s, d) == \E i \in 1..Len(s) : s[i] = d
FirstTok(s, d) == CHOOSE i \in 1..Len(s) : s[i] = d /\ \A j \in 1..(i - 1) : s[j] # d

\* str::split_once(d)
SplitOnce(s, d) ==
    IF HasTok(s, d)
    THEN [found |-> TRUE,
          head |-> SubSeq(s, 1, FirstTok(s, d) - 1),
          tail |-> SubSeq(s, FirstTok(s, d) + 1, Len(s))]
    ELSE [found |-> FALSE, head |-> s, tail |-> <<>>]

\* str::starts_with(p)
StartsWith(s, p) == Len(s) >= Len(p) /\ SubSeq(s, 1, Len(p)) = p

\* base64::decode on the payloads the model draws.
Base64Decode(p) ==
    IF p = <<"QUJD">> THEN [ok |-> TRUE, bytes |-> <<65, 66, 67>>]
    ELSE IF p = <<>> THEN [ok |-> TRUE, bytes |-> <<>>]
    ELSE [ok |-> FALSE, bytes |-> <<>>]

-----------------------------------------------------------------------------
\* Data model

Err(e) == [e |-> e, code |-> 0]
ErrStatus(c) == [e |-> "Status", code |-> c]

ImageOf(ct, b) == [content_type |-> ct, body |-> b]
ImgA == ImageOf(<<"image", "/", "png">>, <<1>>)
ImgB == ImageOf(<<"image", "/", "png">>, <<2>>)

Absent == [tag |-> "Absent"]
Failed(err, attempts) == [tag |-> "Failed", err |-> err, attempts |-> attempts]
ImgSuccess(image, time) == [tag |-> "Success", image |-> image, time |-> time]
MagicSuccess(url, status, time) ==
    [tag |-> "Success", url |-> url, status |-> status, time |-> time]

NoFile == [tag |-> "NoFile"]
Corrupt == [tag |-> "Corrupt"]
SavedImage(pair, image, nanos) ==
    [tag |-> "Saved", pair |-> pair, image |-> image, time_nanos |-> nanos]

\* An i64 count of nanoseconds, kept in base 10^9: the value is
\* hi * 10^9 + lo with 0 <= lo < 10^9.
TimestampNanos(t) == [hi |-> t, lo |-> 0]
NanosDiv(n) == n.hi
NanosMod(n) == n.lo
\* NaiveDateTime::from_timestamp_opt(secs, nsecs), to the second
FromTimestamp(secs, nsecs) == secs + nsecs \div NanosPerSecond

ImgTypes == {"Thumbnail", "Large"}
ImgUrls == {U1}
Pairs == ImgTypes \X ImgUrls
MagicUrls == {M1}

-----------------------------------------------------------------------------
\* Backoff arithmetic.  A u64 is kept as four 16-bit limbs, least significant
\* first, so that 2u64.pow(e) wraps modulo 2^64 as the release build computes it.

Limb == 2 ^ 16

DoubleU64(x) ==
    LET d1 == 2 * x[1]
        d2 == 2 * x[2] + d1 \div Limb
        d3 == 2 * x[3] + d2 \div Limb
        d4 == 2 * x[4] + d3 \div Limb
    IN  <<d1 % Limb, d2 % Limb, d3 % Limb, d4 % Limb>>

\* x * 2^16 in wrapping 64-bit arithmetic
ShiftLimbU64(x) == <<0, x[1], x[2], x[3]>>

RECURSIVE Pow2U64(_)
Pow2U64(e) ==
    IF e = 0 THEN <<1, 0, 0, 0>>
    ELSE IF e >= 16 THEN ShiftLimbU64(Pow2U64(e - 16))
    ELSE DoubleU64(Pow2U64(e - 1))

\* std::cmp::min(cap, x) for a cap below 2^16
MinU64(cap, x) ==
    IF x[2] = 0 /\ x[3] = 0 /\ x[4] = 0 /\ x[1] < cap THEN x[1] ELSE cap

\* Timeout with the exponent num_attempts: 2 seconds after the first failure
TimeoutFromTwo(num_attempts) == MinU64(MAX_REFRESH_TIMEOUT, Pow2U64(num_attempts))

\* Duration::seconds(min(MAX_REFRESH_TIMEOUT, 2u64.pow(num_attempts - 1)))
Timeout(num_attempts) == MinU64(MAX_REFRESH_TIMEOUT, Pow2U64(num_attempts - 1))

LastOf(attempts) == attempts[Len(attempts)]

\* InBackoff measuring from the first attempt instead of the most recent one
InBackoffFromFirst(attempts, t) == t - attempts[1] < Timeout(Len(attempts))

\* duration < timeout: the memoized error is returned, no new attempt is made
InBackoff(attempts, t) == t - LastOf(attempts) < Timeout(Len(attempts))

\* 2u64.pow(num_attempts - 1) leaves the 64-bit range: the build with
\* overflow checks panics there, the build without them wraps (Pow2U64).
Overflows(num_attempts) == num_attempts - 1 >= 64

\* IsStale with an entry exactly as old as the TTL counted as stale
IsStaleAtTtl(time, t) == t - time >= MAGIC_CACHE_DURATION_SECONDS

\* duration > Duration::seconds(MAGIC_CACHE_DURATION_SECONDS)
IsStale(time, t) == t - time > MAGIC_CACHE_DURATION_SECONDS

-----------------------------------------------------------------------------
\* Fetch Classifier.  An upstream answer is [sent, status, has_ctype, ctype,
\* readable, body]; sent = FALSE is a request that got no response.

Http(status, has_ctype, ctype, readable, body) ==
    [sent |-> TRUE, status |-> status, has_ctype |-> has_ctype, ctype |-> ctype,
     readable |-> readable, body |-> body]
NoAnswer ==
    [sent |-> FALSE, status |-> 0, has_ctype |-> FALSE, ctype |-> <<>>,
     readable |-> FALSE, body |-> <<>>]

\* StatusCode::is_success
IsSuccess(status) == status >= 200 /\ status < 300

FetchOk(v) == [ok |-> TRUE, value |-> v, err |-> Err("None")]
FetchErr(e) == [ok |-> FALSE, value |-> <<>>, err |-> e]

fetch_img(r) ==
    IF ~r.sent THEN FetchErr(Err("RequestFailed"))
    ELSE IF ~IsSuccess(r.status) THEN FetchErr(ErrStatus(r.status))
    ELSE IF ~r.has_ctype THEN FetchErr(Err("UnsupportedContentType"))
    ELSE IF ~r.readable THEN FetchErr(Err("BodyReadFailed"))
    ELSE FetchOk(ImageOf(r.ctype, r.body))

\* fetch_magic_url taking the text of an answer of any status
fetch_magic_url_any_status(r) ==
    IF ~r.sent THEN FetchErr(Err("RequestFailed"))
    ELSE IF ~r.has_ctype THEN FetchErr(Err("UnsupportedContentType"))
    ELSE IF ~StartsWith(r.ctype, <<"text", "/", "plain">>)
         THEN FetchErr(Err("UnsupportedContentType"))
    ELSE IF ~r.readable THEN FetchErr(Err("TextReadFailed"))
    ELSE FetchOk([url |-> r.body, status |-> r.status])

\* fetch_magic_url refusing a text that is a data URI which does not decode
fetch_magic_url_decoding(r) ==
    IF ~r.sent THEN FetchErr(Err("RequestFailed"))
    ELSE IF ~IsSuccess(r.status) THEN FetchErr(ErrStatus(r.status))
    ELSE IF ~r.has_ctype THEN FetchErr(Err("UnsupportedContentType"))
    ELSE IF ~StartsWith(r.ctype, <<"text", "/", "plain">>)
         THEN FetchErr(Err("UnsupportedContentType"))
    ELSE IF ~r.readable THEN FetchErr(Err("TextReadFailed"))
    ELSE IF r.body = <<"data", ":", "image", "/", "gif", ",", "!!">>
         THEN FetchErr(Err("InvalidDataUrl"))
    ELSE FetchOk([url |-> r.body, status |-> r.status])

fetch_magic_url(r) ==
    IF ~r.sent THEN FetchErr(Err("RequestFailed"))
    ELSE IF ~IsSuccess(r.status) THEN FetchErr(ErrStatus(r.status))
    ELSE IF ~r.has_ctype THEN FetchErr(Err("UnsupportedContentType"))
    ELSE IF ~StartsWith(r.ctype, <<"text", "/", "plain">>)
         THEN FetchErr(Err("UnsupportedContentType"))
    ELSE IF ~r.readable THEN FetchErr(Err("TextReadFailed"))
    ELSE FetchOk([url |-> r.body, status |-> r.status])

Png == <<"image", "/", "png">>
TextPlain == <<"text", "/", "plain">>
TextHtml == <<"text", "/", "html">>

\* The answers the rescaling service gives to an image fetch.
ImgAnswers ==
    { NoAnswer,
      Http(404, TRUE, TextHtml, TRUE, <<>>),
      Http(200, TRUE, Png, TRUE, <<1>>),
      Http(200, TRUE, Png, TRUE, <<2>>) }

\* Resolutions to a data URI that decodes, to two that do not, and to an image
\* URL, and a failed one.
DataAnswers ==
    { Http(200, TRUE, TextPlain, TRUE, DataPng),
      Http(200, TRUE, TextPlain, TRUE, DataNoComma),
      Http(204, TRUE, TextPlain, TRUE, DataBadB64),
      Http(200, TRUE, TextPlain, TRUE, U1),
      Http(404, TRUE, TextPlain, TRUE, U1) }

\* Answers for the five upstream errors, spread over the two fetches, and one
\* that succeeds for each.
ErrImgAnswers ==
    { NoAnswer,
      Http(200, FALSE, <<>>, TRUE, <<1>>),
      Http(200, TRUE, Png, FALSE, <<>>),
      Http(200, TRUE, Png, TRUE, <<1>>) }
ErrMagicAnswers ==
    { Http(404, TRUE, TextPlain, TRUE, U1),
      Http(200, TRUE, TextPlain, FALSE, <<>>),
      Http(200, TRUE, TextPlain, TRUE, DataBadB64) }

\* A failure and a success of each fetch, the resolution being a data URI.
BackoffImgAnswers == { NoAnswer, Http(200, TRUE, Png, TRUE, <<1>>) }
BackoffMagicAnswers ==
    { Http(404, TRUE, TextPlain, TRUE, U1),
      Http(200, TRUE, TextPlain, TRUE, DataPng) }

\* The answers a magic URL gives.
MagicAnswers ==
    { NoAnswer,
      Http(404, TRUE, TextPlain, TRUE, U1),
      Http(200, FALSE, <<>>, TRUE, U1),
      Http(200, TRUE, TextHtml, TRUE, U1),
      Http(200, TRUE, TextPlain, FALSE, <<>>),
      Http(200, TRUE, TextPlain, TRUE, U1),
      Http(204, TRUE, TextPlain, TRUE, U1),
      Http(200, TRUE, TextPlain, TRUE, DataPng),
      Http(200, TRUE, TextPlain, TRUE, DataBadB64) }

\* A failure and a success of each fetch, and a resolution with a status other
\* than 200.
FewImgAnswers ==
    { NoAnswer,
      Http(200, TRUE, Png, TRUE, <<1>>),
      Http(200, TRUE, Png, TRUE, <<2>>) }
FewMagicAnswers ==
    { Http(404, TRUE, TextPlain, TRUE, U1),
      Http(200, TRUE, TextPlain, TRUE, U1),
      Http(204, TRUE, TextPlain, TRUE, U1) }
OneImgAnswer == { Http(200, TRUE, Png, TRUE, <<1>>) }

\* Resolutions that succeed, with status 200 and with another 2xx status, to
\* an image URL and to a data URI.
ResolvedAnswers ==
    { Http(200, TRUE, TextPlain, TRUE, U1),
      Http(204, TRUE, TextPlain, TRUE, U1),
      Http(200, TRUE, TextPlain, TRUE, DataPng),
      Http(204, TRUE, TextPlain, TRUE, DataPng) }

-----------------------------------------------------------------------------
\* Content Store

\* hex::encode(sha256(url)) of the URLs the model draws, cut by the two
\* split_at(3) of lines 455-456 into 3, 3 and 58 hex digits.
Sha256Hex(url) ==
    IF url = U1
    THEN <<"bb8", "203", "0dbc2bcaba32a90bf2e207a84a856fc5f033b77c480836ab6f77f40f19">>
    ELSE <<"", "", "">>

\* The file path: cache/{type}/{3 hex digits}/{3 hex digits}/{the other 58}
pair_to_path(pair) == <<"cache", pair[1]>> \o Sha256Hex(pair[2])

Paths == {pair_to_path(pair) : pair \in Pairs}

\* read_from_disk finding no file whatever the disk holds
read_from_disk_blind(pair) == [some |-> FALSE, saved |-> NoFile]

read_from_disk(pair) ==
    LET f == disk[pair_to_path(pair)]
    IN  IF f.tag = "Saved" THEN [some |-> TRUE, saved |-> f]
        ELSE [some |-> FALSE, saved |-> NoFile]

\* write_to_disk going on without the file when the write fails
write_to_disk_lenient(pair, image, outcome) ==
    [ok |-> TRUE,
     saved |-> SavedImage(pair, image, TimestampNanos(now)),
     file |-> IF outcome = "ok" THEN SavedImage(pair, image, TimestampNanos(now))
              ELSE IF outcome = "write_failed" THEN Corrupt
              ELSE disk[pair_to_path(pair)]]

\* What a write leaves at the path: the envelope, nothing new (create_dir_all
\* or File::create failed), or a truncated file (write_all failed).
DiskOutcomes == {"ok", "create_failed", "write_failed"}

write_to_disk(pair, image, outcome) ==
    IF outcome = "ok"
    THEN [ok |-> TRUE,
          saved |-> SavedImage(pair, image, TimestampNanos(now)),
          file |-> SavedImage(pair, image, TimestampNanos(now))]
    ELSE [ok |-> FALSE,
          saved |-> NoFile,
          file |-> IF outcome = "write_failed" THEN Corrupt
                   ELSE disk[pair_to_path(pair)]]

-----------------------------------------------------------------------------
\* Requests and tasks

Req(img_type, url) == [img_type |-> img_type, url |-> url]

\* The (first path segment, tail) pairs the dispatcher hands to proxy_img:
\* requests that never reach the Magic Resolver,
ImgRequests ==
    { Req(<<"thumbnail">>, U1),
      Req(<<"bogus">>, U1),
      Req(<<"large">>, DataPng),
      Req(<<"thumbnail">>, DataNoComma) }

\* and requests under the magic marker or the purge keyword.
MagicRequests ==
    { Req(MagicKeyword, <<"thumbnail", "/">> \o M1),
      Req(MagicKeyword, PURGE_MAGIC_KEYWORD \o <<"/">> \o M1),
      Req(PURGE_MAGIC_KEYWORD, M1),
      Req(MagicKeyword, <<"bogus", "/">> \o M1),
      Req(MagicKeyword, M1) }

\* One request of every kind, for the runs that follow a single request at a
\* time through both caches.
MixedRequests ==
    { Req(<<"thumbnail">>, U1),
      Req(<<"thumbnail">>, DataPng),
      Req(MagicKeyword, <<"thumbnail", "/">> \o M1),
      Req(PURGE_MAGIC_KEYWORD, M1),
      Req(<<"bogus">>, U1) }

\* Requests whose URL to serve is a data URI, at once or after the resolver,
\* next to a request for an upstream image.
DataRequests ==
    { Req(<<"thumbnail">>, DataPng),
      Req(<<"large">>, DataNoComma),
      Req(<<"thumbnail">>, DataBadB64),
      Req(<<"thumbnail">>, U1),
      Req(MagicKeyword, <<"thumbnail", "/">> \o M1) }

\* Requests that end in every error of the taxonomy.
ErrRequests ==
    { Req(<<"thumbnail">>, U1),
      Req(<<"bogus">>, U1),
      Req(<<"thumbnail">>, DataNoComma),
      Req(MagicKeyword, <<"thumbnail", "/">> \o M1),
      Req(MagicKeyword, <<"bogus", "/">> \o M1),
      Req(MagicKeyword, M1),
      Req(PURGE_MAGIC_KEYWORD, M1) }

\* One request to each cache.
BackoffRequests ==
    { Req(<<"thumbnail">>, U1),
      Req(MagicKeyword, <<"thumbnail", "/">> \o M1) }

\* Requests that are served an image, plain and magic.
ServedRequests ==
    { Req(<<"thumbnail">>, U1),
      Req(<<"thumbnail">>, DataPng),
      Req(MagicKeyword, <<"thumbnail", "/">> \o M1),
      Req(MagicKeyword, <<"large", "/">> \o M1) }

\* The locals of one run of proxy_img.  pc names the point the task waits at:
\*   magic_fetch   fetch_magic_url(url).await          (line 333)
\*   img_lookup    before imgs.lock().get(&pair)       (line 217)
\*   disk_read     before read_from_disk(&pair)        (line 243)
\*   img_fetch     fetch_img(url).await                (line 260)
\*   cache_insert  before cache_and_return             (lines 246, 266)
\* nImg, nMagic, nDisk count the upstream image fetches, the magic fetches and
\* the disk accesses the request has made.
IdleTask ==
    [pc |-> "idle", is_magic |-> FALSE, img_type |-> "None",
     url |-> <<>>, status |-> 0, cache_duration_seconds |-> 0,
     attempts |-> <<>>, saved |-> NoFile, src |-> "none",
     nImg |-> 0, nMagic |-> 0, nDisk |-> 0, spawned |-> 0]

Ok(image, dur) ==
    [tag |-> "Ok", image |-> image, cache_duration_seconds |-> dur, err |-> Err("None")]
Error(err) ==
    [tag |-> "Err", image |-> ImageOf(<<>>, <<>>), cache_duration_seconds |-> 0, err |-> err]
Panicked ==
    [tag |-> "Panic", image |-> ImageOf(<<>>, <<>>), cache_duration_seconds |-> 0,
     err |-> Err("None")]

\* The response most recently sent, with what the request did to produce it.
NoResponse == [tag |-> "none"]
Response(T, res) ==
    [tag |-> res.tag, res |-> res, is_magic |-> T.is_magic,
     status |-> T.status, src |-> T.src,
     nImg |-> T.nImg, nMagic |-> T.nMagic, nDisk |-> T.nDisk, spawned |-> T.spawned]

\* The outcome of a step of task T: it goes on as T, or it returns res.
Continue(T) == [task |-> T, out |-> NoResponse]
Return(T, res) == [task |-> IdleTask, out |-> Response(T, res)]

Apply(t, o) ==
    /\ tasks' = [tasks EXCEPT ![t] = o.task]
    /\ last' = IF o.out = NoResponse THEN last ELSE o.out

PairOf(T) == <<T.img_type, T.url>>

-----------------------------------------------------------------------------
\* The two mutexes, Arc<Mutex<HashMap>>: lines 22-23, 101-105

Mutexes == {"imgs", "magic"}
Unlocked == [m \in Mutexes |-> "none"]

\* A guard bound to a variable of the function: it outlives the statement,
\* and the mutex stays locked by its task after the step.
WithLockKept(m, who) ==
    /\ locks[m] = "none"
    /\ locks' = [locks EXCEPT ![m] = who]

\* mutex.lock().unwrap().op(..): the guard is a temporary of one statement
\* (lines 178, 217, 272, 288, 338, 350, 369).  The mutex must be free to be
\* taken, and it is released when the statement ends, within the step.
WithLock(m, who) ==
    /\ locks[m] = "none"
    /\ locks' = locks

\* A step that takes the mutex m for one statement, or none at all.
Locking(m, who) == IF m = "none" THEN locks' = locks ELSE WithLock(m, who)

-----------------------------------------------------------------------------
\* proxy_img

\* lines 181-185
ParseImgType(img_type) ==
    IF img_type = <<"thumbnail">> THEN "Thumbnail"
    ELSE IF img_type = <<"large">> THEN "Large"
    ELSE "Invalid"

\* CacheDuration giving the magic TTL to every successful status
CacheDurationAnySuccess(is_magic, status) ==
    IF ~is_magic THEN REGULAR_CACHE_DURATION_SECONDS
    ELSE IF IsSuccess(status) THEN MAGIC_CACHE_DURATION_SECONDS
    ELSE 0

\* lines 186-193
CacheDuration(is_magic, status) ==
    IF ~is_magic THEN REGULAR_CACHE_DURATION_SECONDS
    ELSE IF status = 200 THEN MAGIC_CACHE_DURATION_SECONDS
    ELSE 0

\* lines 198-206: url[5..] drops "data:", the first two tokens
DecodeDataUrl(url) ==
    LET parts == SplitOnce(SubSeq(url, 3, Len(url)), ",")
        content_type == SplitOnce(parts.head, ";").head
        body == Base64Decode(parts.tail)
    IN  IF parts.found /\ body.ok
        THEN [ok |-> TRUE, image |-> ImageOf(content_type, body.bytes)]
        ELSE [ok |-> FALSE, image |-> ImageOf(<<>>, <<>>)]

\* LookupImg letting a Success entry expire like a magic entry does
LookupImgExpiring(T) ==
    LET img == imgs[PairOf(T)]
    IN  IF img.tag = "Failed"
        THEN IF InBackoff(img.attempts, now)
             THEN Return(T, Error(img.err))
             ELSE Continue([T EXCEPT !.pc = "img_fetch", !.attempts = img.attempts,
                                     !.nImg = @ + 1])
        ELSE IF img.tag = "Success" /\ ~IsStale(img.time, now)
        THEN Return([T EXCEPT !.src = "memory"], Ok(img.image, T.cache_duration_seconds))
        ELSE Continue([T EXCEPT !.pc = "disk_read"])

\* lines 216-242: the lookup in the Image Cache
LookupImg(T) ==
    LET img == imgs[PairOf(T)]
    IN  IF img.tag = "Failed"
        THEN IF InBackoff(img.attempts, now)
             THEN Return(T, Error(img.err))
             ELSE Continue([T EXCEPT !.pc = "img_fetch", !.attempts = img.attempts,
                                     !.nImg = @ + 1])
        ELSE IF img.tag = "Success"
        THEN Return([T EXCEPT !.src = "memory"], Ok(img.image, T.cache_duration_seconds))
        ELSE Continue([T EXCEPT !.pc = "disk_read"])

\* ServeUrl sending a data URI to the rescaling service like any other URL
ServeUrlFetching(T) ==
    IF StartsWith(T.url, DataImagePrefix)
    THEN Continue([T EXCEPT !.pc = "img_fetch", !.nImg = @ + 1])
    ELSE LookupImg(T)

\* lines 197-242: the Data-URI Shortcut, else the Image Cache
ServeUrl(T) ==
    IF StartsWith(T.url, DataImagePrefix)
    THEN LET d == DecodeDataUrl(T.url)
         IN  IF d.ok
             THEN Return([T EXCEPT !.src = "data"], Ok(d.image, T.cache_duration_seconds))
             ELSE Return(T, Error(Err("InvalidDataUrl")))
    ELSE LookupImg(T)

\* resolve_magic_url, lines 288-323: the lookup in the magic cache
LookupMagic(T) ==
    LET m == magic[T.url]
    IN  IF m.tag = "Failed"
        THEN IF InBackoff(m.attempts, now)
             THEN Return(T, Error(m.err))
             ELSE Continue([T EXCEPT !.pc = "magic_fetch", !.attempts = m.attempts,
                                     !.nMagic = @ + 1])
        ELSE IF m.tag = "Success"
        THEN Continue([T EXCEPT !.pc = "img_lookup", !.url = m.url, !.status = m.status,
                                !.cache_duration_seconds = CacheDuration(TRUE, m.status),
                                !.spawned = IF IsStale(m.time, now) THEN 1 ELSE 0])
        ELSE Continue([T EXCEPT !.pc = "magic_fetch", !.attempts = <<>>, !.nMagic = @ + 1])

\* magic_fetch_and_cache, lines 333-359: the entry it installs for an answer
magic_fetch_and_cache(attempts, answer) ==
    LET res == fetch_magic_url(answer)
    IN  [res |-> res,
         entry |-> IF res.ok
                   THEN MagicSuccess(res.value.url, res.value.status, now)
                   ELSE Failed(res.err, Append(attempts, now))]

\* cache_and_return, lines 363-375: the entry it installs
cache_and_return(saved_image) ==
    ImgSuccess(saved_image.image, FromTimestamp(NanosDiv(saved_image.time_nanos),
                                                NanosMod(saved_image.time_nanos)))

\* lines 168-176
SplitMagic(r) ==
    IF r.img_type = MagicKeyword
    THEN LET sp == SplitOnce(r.url, "/")
         IN  [ok |-> sp.found, is_magic |-> TRUE, img_type |-> sp.head, url |-> sp.tail]
    ELSE [ok |-> TRUE, is_magic |-> FALSE, img_type |-> r.img_type, url |-> r.url]

IsPurge(r) == SplitMagic(r).ok /\ SplitMagic(r).img_type = PURGE_MAGIC_KEYWORD

\* A purge that removes only what was resolved, and keeps a Failed entry
MagicRemoveResolved(url) ==
    [u \in MagicUrls |-> IF u = url /\ magic[u].tag = "Success" THEN Absent ELSE magic[u]]

\* line 178: HashMap::remove
MagicRemove(url) == [u \in MagicUrls |-> IF u = url THEN Absent ELSE magic[u]]

\* A request arrives and runs to its first wait: lines 168-195, then line 288
\* for a magic request and lines 197-242 for the others.
StartOutcome(r) ==
    LET p == SplitMagic(r)
        T == [IdleTask EXCEPT !.is_magic = p.is_magic, !.url = p.url,
                              !.img_type = ParseImgType(p.img_type),
                              !.cache_duration_seconds = REGULAR_CACHE_DURATION_SECONDS]
    IN  IF ~p.ok THEN Return(T, Error(Err("InvalidRescaleType")))
        ELSE IF p.img_type = PURGE_MAGIC_KEYWORD THEN Return(T, Error(Err("Purge")))
        ELSE IF T.img_type = "Invalid" THEN Return(T, Error(Err("InvalidRescaleType")))
        ELSE IF p.is_magic THEN LookupMagic(T)
        ELSE ServeUrl(T)

\* The mutex the first lookup of a request takes: line 178, 288 or 217.
StartLock(r) ==
    LET p == SplitMagic(r)
    IN  IF ~p.ok THEN "none"
        ELSE IF p.img_type = PURGE_MAGIC_KEYWORD THEN "magic"
        ELSE IF ParseImgType(p.img_type) = "Invalid" THEN "none"
        ELSE IF p.is_magic THEN "magic"
        ELSE IF StartsWith(p.url, DataImagePrefix) THEN "none"
        ELSE "imgs"

Start(t, r) ==
    /\ tasks[t].pc = "idle"
    /\ Locking(StartLock(r), t)
    /\ LET o == StartOutcome(r)
           url == SplitMagic(r).url
       IN  /\ o.task.spawned = 1 => refresh[url] < MaxRefresh
           /\ Apply(t, o)
           /\ magic' = IF IsPurge(r) THEN MagicRemove(url) ELSE magic
           /\ refresh' = IF o.task.spawned = 1
                         THEN [refresh EXCEPT ![url] = @ + 1]
                         ELSE refresh
    /\ UNCHANGED <<now, imgs, disk>>

\* The lookup of a request finds a Failed entry whose attempts count makes
\* 2u64.pow overflow, in a build with overflow checks: the task panics at
\* line 227 or 298, after the lock of line 217 or 288 is released.
StartOverflow(t, r) ==
    LET p == SplitMagic(r)
        T == [IdleTask EXCEPT !.is_magic = p.is_magic, !.url = p.url,
                              !.img_type = ParseImgType(p.img_type),
                              !.cache_duration_seconds = REGULAR_CACHE_DURATION_SECONDS]
        entry == IF p.is_magic THEN magic[p.url] ELSE imgs[PairOf(T)]
    IN  /\ tasks[t].pc = "idle"
        /\ p.ok /\ T.img_type \in ImgTypes
        /\ p.is_magic \/ ~StartsWith(T.url, DataImagePrefix)
        /\ entry.tag = "Failed"
        /\ Overflows(Len(entry.attempts))
        /\ Locking(StartLock(r), t)
        /\ Apply(t, Return(T, Panicked))
        /\ UNCHANGED <<now, imgs, magic, disk, refresh>>

\* fetch_magic_url answers a foreground resolution: lines 333-359, 189-195
MagicFetchDone(t, answer) ==
    LET T == tasks[t]
        r == magic_fetch_and_cache(T.attempts, answer)
    IN  /\ T.pc = "magic_fetch"
        /\ Locking("magic", t)
        /\ magic' = [magic EXCEPT ![T.url] = r.entry]
        /\ Apply(t, IF r.res.ok
                    THEN Continue([T EXCEPT !.pc = "img_lookup", !.attempts = <<>>,
                                      !.url = r.res.value.url,
                                      !.status = r.res.value.status,
                                      !.cache_duration_seconds =
                                          CacheDuration(TRUE, r.res.value.status)])
                    ELSE Return(T, Error(r.res.err)))
        /\ UNCHANGED <<now, imgs, disk, refresh>>

\* fetch_magic_url answers a background refresh: lines 314-316, 333-359
RefreshDone(url, answer) ==
    /\ refresh[url] > 0
    /\ Locking("magic", "refresh")
    /\ magic' = [magic EXCEPT ![url] = magic_fetch_and_cache(<<>>, answer).entry]
    /\ refresh' = [refresh EXCEPT ![url] = @ - 1]
    /\ UNCHANGED <<now, imgs, disk, tasks, last>>

\* lines 197-242 of a magic request, once the magic URL is resolved
ImgLookup(t) ==
    /\ tasks[t].pc = "img_lookup"
    /\ Locking(IF StartsWith(tasks[t].url, DataImagePrefix) THEN "none" ELSE "imgs", t)
    /\ Apply(t, ServeUrl(tasks[t]))
    /\ UNCHANGED <<now, imgs, magic, disk, refresh>>

\* lines 243-250
DiskRead(t) ==
    LET T == tasks[t]
        f == read_from_disk(PairOf(T))
    IN  /\ T.pc = "disk_read"
        /\ Locking("none", t)
        /\ Apply(t, IF f.some
                    THEN Continue([T EXCEPT !.pc = "cache_insert", !.saved = f.saved,
                                      !.src = "disk", !.nDisk = @ + 1])
                    ELSE Continue([T EXCEPT !.pc = "img_fetch", !.attempts = <<>>,
                                      !.nDisk = @ + 1, !.nImg = @ + 1]))
        /\ UNCHANGED <<now, imgs, magic, disk, refresh>>

\* fetch_img answers: lines 260-281
ImgFetchDone(t, answer, outcome) ==
    LET T == tasks[t]
        res == fetch_img(answer)
        w == write_to_disk(PairOf(T), res.value, outcome)
    IN  /\ T.pc = "img_fetch"
        /\ Locking(IF res.ok THEN "none" ELSE "imgs", t)
        /\ IF res.ok
           THEN /\ disk' = [disk EXCEPT ![pair_to_path(PairOf(T))] = w.file]
                /\ imgs' = imgs
                /\ Apply(t, IF w.ok
                            THEN Continue([T EXCEPT !.pc = "cache_insert", !.saved = w.saved,
                                              !.src = "upstream", !.nDisk = @ + 1,
                                              !.attempts = <<>>])
                            ELSE Return([T EXCEPT !.nDisk = @ + 1], Panicked))
           ELSE /\ outcome = "ok"
                /\ imgs' = [imgs EXCEPT ![PairOf(T)] = Failed(res.err, Append(T.attempts, now))]
                /\ disk' = disk
                /\ Apply(t, Return(T, Error(res.err)))
        /\ UNCHANGED <<now, magic, refresh>>

\* cache_and_return: lines 362-377, then lines 245-248 or 265-268
CacheInsert(t) ==
    LET T == tasks[t]
    IN  /\ T.pc = "cache_insert"
        /\ Locking("imgs", t)
        /\ imgs' = [imgs EXCEPT ![T.saved.pair] = cache_and_return(T.saved)]
        /\ Apply(t, Return(T, Ok(T.saved.image, T.cache_duration_seconds)))
        /\ UNCHANGED <<now, magic, disk, refresh>>

\* The clock advances.
Tick ==
    /\ \E t \in Times : t > now /\ now' = t
    /\ UNCHANGED <<imgs, magic, disk, tasks, refresh, last, locks>>

\* The process is restarted: main, lines 101-105.  Both maps are created
\* empty, every task is gone, the cache directory stays.
Restart ==
    /\ imgs' = [p \in Pairs |-> Absent]
    /\ magic' = [u \in MagicUrls |-> Absent]
    /\ tasks' = [t \in Tasks |-> IdleTask]
    /\ refresh' = [u \in MagicUrls |-> 0]
    /\ last' = NoResponse
    /\ locks' = Unlocked
    /\ UNCHANGED <<now, disk>>

Init ==
    /\ now = 0
    /\ imgs = [p \in Pairs |-> Absent]
    /\ magic = [u \in MagicUrls |-> Absent]
    /\ disk = [f \in Paths |-> NoFile]
    /\ tasks = [t \in Tasks |-> IdleTask]
    /\ refresh = [u \in MagicUrls |-> 0]
    /\ last = NoResponse
    /\ locks = Unlocked

\* The time of the i-th of a run of failures, each retried as soon as the
\* backoff window min(3600, 2^(k-1)) after failure k has elapsed.
RECURSIVE AttemptTime(_)
AttemptTime(i) ==
    IF i = 1 THEN 0
    ELSE AttemptTime(i - 1)
             + (IF i - 1 >= 13 THEN MAX_REFRESH_TIMEOUT ELSE 2 ^ (i - 2))

History(n) == [i \in 1..n |-> AttemptTime(i)]

\* The seconds since the most recent failure at which the next request comes.
BackoffDelays == {0, 1, MAX_REFRESH_TIMEOUT - 1, MAX_REFRESH_TIMEOUT}

\* The state after n failures in a row of the image and of the magic URL.
InitBackoff ==
    \E n \in 1..MaxAttempts, d \in BackoffDelays :
        /\ now = AttemptTime(n) + d
        /\ imgs = [p \in Pairs |-> IF p = <<"Thumbnail", U1>>
                                   THEN Failed(Err("RequestFailed"), History(n))
                                   ELSE Absent]
        /\ magic = [u \in MagicUrls |-> Failed(ErrStatus(404), History(n))]
        /\ disk = [f \in Paths |-> NoFile]
        /\ tasks = [t \in Tasks |-> IdleTask]
        /\ refresh = [u \in MagicUrls |-> 0]
        /\ last = NoResponse
        /\ locks = Unlocked

\* One request at a time through both caches, with background refreshes.
Next ==
    \/ \E r \in MixedRequests : Start("t1", r)
    \/ \E a \in FewMagicAnswers : MagicFetchDone("t1", a)
    \/ \E u \in MagicUrls, a \in FewMagicAnswers : RefreshDone(u, a)
    \/ ImgLookup("t1")
    \/ DiskRead("t1")
    \/ \E a \in FewImgAnswers : ImgFetchDone("t1", a, "ok")
    \/ CacheInsert("t1")
    \/ Tick
    \/ Restart

Spec == Init /\ [][Next]_vars

\* Concurrent requests to the Image Cache and the Content Store.
NextImg ==
    \/ \E t \in Tasks, r \in ImgRequests : Start(t, r)
    \/ \E t \in Tasks : DiskRead(t)
    \/ \E t \in Tasks, a \in ImgAnswers, w \in DiskOutcomes : ImgFetchDone(t, a, w)
    \/ \E t \in Tasks : CacheInsert(t)
    \/ Tick
    \/ Restart

SpecImg == Init /\ [][NextImg]_vars

\* Requests to the Magic Resolver, one at a time, with background refreshes;
\* the image they resolve to is always served.
NextMagic ==
    \/ \E r \in MagicRequests : Start("t1", r)
    \/ \E a \in MagicAnswers : MagicFetchDone("t1", a)
    \/ \E u \in MagicUrls, a \in MagicAnswers : RefreshDone(u, a)
    \/ ImgLookup("t1")
    \/ DiskRead("t1")
    \/ \E a \in OneImgAnswer : ImgFetchDone("t1", a, "ok")
    \/ CacheInsert("t1")
    \/ Tick
    \/ Restart

SpecMagic == Init /\ [][NextMagic]_vars

\* Requests that are served an image from every source: memory, disk,
\* upstream and data URI, through a fresh or a cached resolution.
NextServe ==
    \/ \E r \in ServedRequests : Start("t1", r)
    \/ \E a \in ResolvedAnswers : MagicFetchDone("t1", a)
    \/ \E u \in MagicUrls, a \in ResolvedAnswers : RefreshDone(u, a)
    \/ ImgLookup("t1")
    \/ DiskRead("t1")
    \/ \E a \in OneImgAnswer : ImgFetchDone("t1", a, "ok")
    \/ CacheInsert("t1")
    \/ Tick
    \/ Restart

SpecServe == Init /\ [][NextServe]_vars

\* Requests that end in the Data-URI Shortcut, while the caches and the disk
\* hold entries of other requests.
NextData ==
    \/ \E r \in DataRequests : Start("t1", r)
    \/ \E a \in DataAnswers : MagicFetchDone("t1", a)
    \/ \E u \in MagicUrls, a \in DataAnswers : RefreshDone(u, a)
    \/ ImgLookup("t1")
    \/ DiskRead("t1")
    \/ \E a \in OneImgAnswer : ImgFetchDone("t1", a, "ok")
    \/ CacheInsert("t1")
    \/ Tick
    \/ Restart

SpecData == Init /\ [][NextData]_vars

\* Requests and answers that end in every error of the taxonomy.
NextErr ==
    \/ \E r \in ErrRequests : Start("t1", r)
    \/ \E a \in ErrMagicAnswers : MagicFetchDone("t1", a)
    \/ \E u \in MagicUrls, a \in ErrMagicAnswers : RefreshDone(u, a)
    \/ ImgLookup("t1")
    \/ DiskRead("t1")
    \/ \E a \in ErrImgAnswers : ImgFetchDone("t1", a, "ok")
    \/ CacheInsert("t1")
    \/ Tick
    \/ Restart

SpecErr == Init /\ [][NextErr]_vars

\* No history is longer than the longest one drawn.
WithinAttempts ==
    /\ \A p \in Pairs :
           imgs[p].tag = "Failed" => Len(imgs[p].attempts) <= MaxAttempts
    /\ \A u \in MagicUrls :
           magic[u].tag = "Failed" => Len(magic[u].attempts) <= MaxAttempts

\* The next request after a run of failures, and what follows it.
NextBackoff ==
    \/ WithinAttempts /\ \E r \in BackoffRequests : Start("t1", r)
    \/ WithinAttempts /\ \E r \in BackoffRequests : StartOverflow("t1", r)
    \/ \E a \in BackoffMagicAnswers : MagicFetchDone("t1", a)
    \/ ImgLookup("t1")
    \/ \E a \in BackoffImgAnswers : ImgFetchDone("t1", a, "ok")
    \/ CacheInsert("t1")

SpecBackoff == InitBackoff /\ [][NextBackoff]_vars

-----------------------------------------------------------------------------
\* Vocabulary of the properties

AllRequests ==
    ImgRequests \cup MagicRequests \cup MixedRequests \cup ServedRequests
        \cup DataRequests \cup ErrRequests \cup BackoffRequests

\* A request that reaches the Image Cache without going through the resolver
IsPlainImg(r) ==
    /\ r.img_type # MagicKeyword
    /\ ParseImgType(r.img_type) # "Invalid"
    /\ ~StartsWith(r.url, DataImagePrefix)
PlainPair(r) == <<ParseImgType(r.img_type), r.url>>

\* A request that reaches the lookup in the magic cache
IsMagicResolve(r) ==
    /\ r.img_type = MagicKeyword
    /\ SplitMagic(r).ok
    /\ ParseImgType(SplitMagic(r).img_type) # "Invalid"
MagicUrlOf(r) == SplitMagic(r).url

PlainImgRequests == {r \in AllRequests : IsPlainImg(r)}
MagicResolveRequests == {r \in AllRequests : IsMagicResolve(r)}
PurgeRequests == {r \in AllRequests : IsPurge(r)}

\* min(3600, 2^(n-1)), the backoff window in seconds after n failed attempts
Window(n) == IF n >= 13 THEN 3600 ELSE 2 ^ (n - 1)

\* A Failed entry e whose most recent attempt is less than its window ago
Suppressed(e) ==
    /\ e.tag = "Failed"
    /\ Len(e.attempts) >= 1
    /\ now - e.attempts[Len(e.attempts)] < Window(Len(e.attempts))

\* A task at the lookup in the Image Cache (a magic request, once resolved)
AtImgLookup(t) ==
    /\ tasks[t].pc = "img_lookup"
    /\ ~StartsWith(tasks[t].url, DataImagePrefix)

\* What every step Start(t, r) does, whatever the request: a cheap test
\* ahead of the instances of Start.
MayStart(t) ==
    /\ tasks[t].pc = "idle"
    /\ UNCHANGED <<now, imgs, disk>>
    /\ \A u \in Tasks \ {t} : tasks'[u] = tasks[u]

\* The step sends a response with this result and leaves the task idle.
Responds(t, res) ==
    /\ tasks'[t] = IdleTask
    /\ last' # NoResponse
    /\ last'.res = res

-----------------------------------------------------------------------------
\* C1. Backoff suppression, in the Image Cache and in the Magic Resolver: a
\* request that finds a Failed entry with n >= 1 attempts less than
\* min(3600, 2^(n-1)) seconds after the most recent attempt gets the memoized
\* error, makes no upstream fetch, and leaves the entry as it is.
C1_ImgStep(t) ==
    /\ \A r \in PlainImgRequests :
          (Suppressed(imgs[PlainPair(r)]) /\ Start(t, r))
          => /\ Responds(t, Error(imgs[PlainPair(r)].err))
             /\ last'.nImg = 0 /\ last'.nMagic = 0 /\ last'.nDisk = 0
             /\ UNCHANGED <<imgs, magic, disk, refresh>>
    /\ (AtImgLookup(t) /\ Suppressed(imgs[PairOf(tasks[t])]) /\ ImgLookup(t))
          => /\ Responds(t, Error(imgs[PairOf(tasks[t])].err))
             /\ last'.nImg = 0 /\ last'.nDisk = 0
             /\ last'.nMagic = tasks[t].nMagic
             /\ UNCHANGED <<imgs, magic, disk, refresh>>

C1_MagicStep(t) ==
    \A r \in MagicResolveRequests :
        (Suppressed(magic[MagicUrlOf(r)]) /\ Start(t, r))
        => /\ Responds(t, Error(magic[MagicUrlOf(r)].err))
           /\ last'.nImg = 0 /\ last'.nMagic = 0 /\ last'.nDisk = 0
           /\ last'.spawned = 0
           /\ UNCHANGED <<imgs, magic, disk, refresh>>

-----------------------------------------------------------------------------
\* C2. Retry after backoff.  A request that finds a Failed entry of n attempts
\* whose window has elapsed makes exactly one fresh fetch, carrying the
\* attempts forward.  If the fetch fails the entry becomes Failed with those
\* attempts plus the new timestamp (n + 1); if it succeeds the entry becomes
\* Success and the history is discarded, so that the next failure recorded
\* for the key starts again at n = 1 (C2_Original).

Elapsed(e) == e.tag = "Failed" /\ ~Suppressed(e)

C2_Retry(t) ==
    /\ \A r \in PlainImgRequests :
          (Elapsed(imgs[PlainPair(r)]) /\ Start(t, r))
          => /\ tasks'[t].pc = "img_fetch"
             /\ tasks'[t].attempts = imgs[PlainPair(r)].attempts
             /\ tasks'[t].nImg = 1 /\ tasks'[t].nDisk = 0
             /\ UNCHANGED <<imgs, magic, disk, refresh, last>>
    /\ (AtImgLookup(t) /\ Elapsed(imgs[PairOf(tasks[t])]) /\ ImgLookup(t))
          => /\ tasks'[t].pc = "img_fetch"
             /\ tasks'[t].attempts = imgs[PairOf(tasks[t])].attempts
             /\ tasks'[t].nImg = 1 /\ tasks'[t].nDisk = 0
             /\ UNCHANGED <<imgs, magic, disk, refresh, last>>
    /\ \A r \in MagicResolveRequests :
          (Elapsed(magic[MagicUrlOf(r)]) /\ Start(t, r))
          => /\ tasks'[t].pc = "magic_fetch"
             /\ tasks'[t].attempts = magic[MagicUrlOf(r)].attempts
             /\ tasks'[t].nMagic = 1
             /\ UNCHANGED <<imgs, magic, disk, refresh, last>>

\* The fetch of task t is answered.
C2_Answer(t) ==
    LET T == tasks[t]
    IN  /\ (T.pc = "img_fetch" /\ tasks'[t] # T /\ ~Restart)
           => \/ /\ imgs'[PairOf(T)].tag = "Failed"
                 /\ imgs'[PairOf(T)].attempts = Append(T.attempts, now)
                 /\ Len(imgs'[PairOf(T)].attempts) = Len(T.attempts) + 1
                 /\ Responds(t, Error(imgs'[PairOf(T)].err))
                 /\ last'.nImg = 1
              \/ /\ tasks'[t].pc = "cache_insert" /\ tasks'[t].src = "upstream"
                 /\ tasks'[t].nImg = 1
                 /\ imgs' = imgs
              \/ /\ Responds(t, Panicked)
                 /\ imgs' = imgs
        /\ (T.pc = "cache_insert" /\ T.src = "upstream" /\ tasks'[t] # T /\ ~Restart)
           => /\ imgs'[PairOf(T)].tag = "Success"
              /\ DOMAIN imgs'[PairOf(T)] = {"tag", "image", "time"}
              /\ Responds(t, Ok(imgs'[PairOf(T)].image, T.cache_duration_seconds))
              /\ last'.nImg = 1
        /\ (T.pc = "magic_fetch" /\ tasks'[t] # T /\ ~Restart)
           => \/ /\ magic'[T.url].tag = "Failed"
                 /\ magic'[T.url].attempts = Append(T.attempts, now)
                 /\ Len(magic'[T.url].attempts) = Len(T.attempts) + 1
                 /\ Responds(t, Error(magic'[T.url].err))
                 /\ last'.nMagic = 1
              \/ /\ magic'[T.url].tag = "Success"
                 /\ DOMAIN magic'[T.url] = {"tag", "url", "status", "time"}
                 /\ tasks'[t].pc = "img_lookup"
                 /\ tasks'[t].nMagic = 1
                 /\ tasks'[t].url = magic'[T.url].url

\* What the code keeps of the last clause: a failure recorded over a Success
\* entry has one attempt, unless it is recorded by a request that read a Failed
\* entry before the success.
C2_AfterSuccess ==
    /\ \A p \in Pairs :
          (imgs[p].tag = "Success" /\ imgs'[p].tag = "Failed")
          => \/ Len(imgs'[p].attempts) = 1
             \/ \E t \in Tasks :
                   /\ tasks[t].pc = "img_fetch" /\ tasks[t].attempts # <<>>
                   /\ imgs'[p].attempts = Append(tasks[t].attempts, now)
    /\ \A u \in MagicUrls :
          (magic[u].tag = "Success" /\ magic'[u].tag = "Failed")
          => \/ Len(magic'[u].attempts) = 1
             \/ \E t \in Tasks :
                   /\ tasks[t].pc = "magic_fetch" /\ tasks[t].attempts # <<>>
                   /\ magic'[u].attempts = Append(tasks[t].attempts, now)

\* A request that finds no entry, or a stale Success entry, starts its fetch
\* (or the refresh) with no attempts.
C2_FreshStart(t) ==
    /\ (tasks[t].pc = "disk_read" /\ tasks'[t].pc = "img_fetch")
          => tasks'[t].attempts = <<>>
    /\ (tasks[t].pc = "idle" /\ tasks'[t].pc = "magic_fetch"
        /\ magic[tasks'[t].url].tag # "Failed")
          => tasks'[t].attempts = <<>>
    /\ \A u \in MagicUrls :
          (refresh'[u] < refresh[u] /\ magic'[u].tag = "Failed")
          => magic'[u].attempts = <<now>>

\* The claim without its last clause, which the code keeps.
C2_RetryAfterBackoff ==
    [][/\ \A t \in Tasks : C2_Retry(t) /\ C2_Answer(t) /\ C2_FreshStart(t)
       /\ C2_AfterSuccess]_vars

\* The last clause: whenever a failure is recorded over a Success entry, it
\* starts again at n = 1.
C2_ResetAlways ==
    /\ \A p \in Pairs :
          (imgs[p].tag = "Success" /\ imgs'[p].tag = "Failed")
          => Len(imgs'[p].attempts) = 1
    /\ \A u \in MagicUrls :
          (magic[u].tag = "Success" /\ magic'[u].tag = "Failed")
          => Len(magic'[u].attempts) = 1

C2_Witness ==
    /\ last # NoResponse
    /\ last.tag = "Err" /\ last.nImg = 1
    /\ imgs[<<"Thumbnail", U1>>].tag = "Failed"
    /\ Len(imgs[<<"Thumbnail", U1>>].attempts) = 2
    /\ imgs[<<"Thumbnail", U1>>].attempts[2] = now
    /\ magic[M1].tag = "Failed"
    /\ Len(magic[M1].attempts) = 2

-----------------------------------------------------------------------------
\* C3. Purge: whatever the magic cache holds for the URL (nothing, Success or
\* Failed), a purge request for it returns the Purge acknowledgment, makes no
\* fetch and resolves no image, leaves the Image Cache and the disk as they
\* are, and leaves the magic cache without an entry for the URL.
C3_PurgeStep(t) ==
    \A r \in PurgeRequests :
        Start(t, r)
        => /\ Responds(t, Error(Err("Purge")))
           /\ last'.nImg = 0 /\ last'.nMagic = 0 /\ last'.nDisk = 0
           /\ last'.spawned = 0 /\ last'.src = "none"
           /\ magic'[MagicUrlOf(r)] = Absent
           /\ \A u \in MagicUrls \ {MagicUrlOf(r)} : magic'[u] = magic[u]
           /\ UNCHANGED <<imgs, disk, refresh>>

C3_Purge == [][\A t \in Tasks : C3_PurgeStep(t)]_vars

\* A purge has been acknowledged and the entry is gone, after the URL had
\* been resolved and while a refresh of it is still in flight.
C3_Witness ==
    /\ last # NoResponse
    /\ last.tag = "Err" /\ last.res.err = Err("Purge")
    /\ magic[M1] = Absent
    /\ imgs[<<"Thumbnail", U1>>].tag = "Success"
    /\ refresh[M1] = 1

-----------------------------------------------------------------------------
\* C4. Stale-while-revalidate: a magic request that finds a Success entry
\* older than the TTL (1 hour) goes on with the cached (resolvedUrl, status)
\* without a fetch of its own and schedules exactly one background refresh;
\* the outcome of a refresh changes no request and no response.  A Success
\* entry not older than the TTL schedules no refresh and causes no fetch.
C4_HitStep(t) ==
    \A r \in MagicResolveRequests :
        LET m == magic[MagicUrlOf(r)]
            old == now - m.time > 3600
        IN  (m.tag = "Success" /\ Start(t, r))
            => /\ tasks'[t].pc = "img_lookup"
               /\ tasks'[t].url = m.url
               /\ tasks'[t].status = m.status
               /\ tasks'[t].nMagic = 0
               /\ tasks'[t].spawned = IF old THEN 1 ELSE 0
               /\ refresh'[MagicUrlOf(r)] = refresh[MagicUrlOf(r)] + (IF old THEN 1 ELSE 0)
               /\ UNCHANGED <<magic, imgs, disk, last>>

\* A background refresh ends.
C4_RefreshStep ==
    ((\E u \in MagicUrls : refresh'[u] < refresh[u]) /\ ~Restart)
    => UNCHANGED <<tasks, last, imgs, disk>>

\* The response of a magic request carries the status it went on with.
C4_ResponseStep(t) ==
    (tasks[t].pc # "idle" /\ tasks[t].is_magic /\ tasks'[t] = IdleTask /\ ~Restart)
    => /\ last'.status = tasks[t].status
       /\ last'.spawned = tasks[t].spawned
       /\ last'.nMagic = tasks[t].nMagic

C4_StaleWhileRevalidate ==
    [][/\ \A t \in Tasks : C4_HitStep(t) /\ C4_ResponseStep(t)
       /\ C4_RefreshStep]_vars

\* A request that found the entry stale has been served the image with the
\* cached status and no fetch of its own, although the refresh it scheduled
\* has already failed.
C4_Witness ==
    /\ last # NoResponse
    /\ last.tag = "Ok" /\ last.is_magic /\ last.spawned = 1
    /\ last.nMagic = 0 /\ last.status = 200
    /\ magic[M1].tag = "Failed"
    /\ refresh[M1] = 0

-----------------------------------------------------------------------------
\* C5. No overlapping refresh: a magic request that finds a stale Success
\* entry while a background refresh for that magic URL is already in flight
\* goes on with the stale value and schedules no second refresh (at most one
\* refresh in flight per magic URL).
C5_SecondHitStep(t) ==
    \A r \in MagicResolveRequests :
        LET m == magic[MagicUrlOf(r)]
        IN  (/\ m.tag = "Success"
             /\ now - m.time > 3600
             /\ refresh[MagicUrlOf(r)] >= 1
             /\ Start(t, r))
            => /\ tasks'[t].url = m.url
               /\ tasks'[t].status = m.status
               /\ refresh'[MagicUrlOf(r)] = refresh[MagicUrlOf(r)]

C5_NoOverlappingRefresh == [][\A t \in Tasks : C5_SecondHitStep(t)]_vars

\* The same as a state predicate: at most one refresh in flight per magic URL.
C5_AtMostOneRefresh == \A u \in MagicUrls : refresh[u] <= 1

-----------------------------------------------------------------------------
\* C6. First fetch of a never-seen image key: a request that missed both the
\* Image Cache and the disk makes exactly one upstream fetch; when the fetch
\* succeeded, at the completion of the request the disk holds an envelope for
\* the key and the Image Cache holds a Success entry for the key, both with
\* the Image returned to the caller.
C6_Completes(t) ==
    /\ tasks[t].pc = "cache_insert"
    /\ tasks[t].src = "upstream"
    /\ tasks[t].nDisk = 2
    /\ CacheInsert(t)

C6_FirstFetchStep(t) ==
    C6_Completes(t)
    => LET pair == tasks[t].saved.pair
       IN  /\ last'.tag = "Ok"
           /\ last'.nImg = 1
           /\ imgs'[pair].tag = "Success"
           /\ imgs'[pair].image = last'.res.image
           /\ disk'[pair_to_path(pair)].tag = "Saved"
           /\ disk'[pair_to_path(pair)].image = last'.res.image

C6_FirstFetch == [][\A t \in Tasks : C6_FirstFetchStep(t)]_vars

\* What holds of it: one fetch, and the Image Cache carries the returned Image.
C6_MemoryStep(t) ==
    C6_Completes(t)
    => LET pair == tasks[t].saved.pair
       IN  /\ last'.tag = "Ok"
           /\ last'.nImg = 1
           /\ imgs'[pair].tag = "Success"
           /\ imgs'[pair].image = last'.res.image

C6_FirstFetchInMemory == [][\A t \in Tasks : C6_MemoryStep(t)]_vars

-----------------------------------------------------------------------------
\* C7. Disk warm cache: a request for an image key that has no entry in the
\* Image Cache and a readable envelope on disk returns exactly the Image of
\* that envelope, makes no upstream fetch, and installs a Success entry for
\* the key in the Image Cache.
\* The request finds no entry in memory and turns to the disk.
C7_MissStep(t) ==
    \A r \in PlainImgRequests :
        (imgs[PlainPair(r)] = Absent /\ Start(t, r))
        => /\ tasks'[t].pc = "disk_read"
           /\ PairOf(tasks'[t]) = PlainPair(r)
           /\ tasks'[t].nImg = 0
           /\ last' = last

\* It reads the envelope.
C7_ReadStep(t) ==
    (tasks[t].pc = "disk_read" /\ DiskRead(t))
    => LET file == disk[pair_to_path(PairOf(tasks[t]))]
       IN  file.tag = "Saved"
           => /\ tasks'[t].pc = "cache_insert"
              /\ tasks'[t].src = "disk"
              /\ tasks'[t].saved = file
              /\ tasks'[t].nImg = 0
              /\ UNCHANGED <<imgs, disk, last>>

\* It installs the entry and answers.
C7_AnswerStep(t) ==
    (tasks[t].src = "disk" /\ CacheInsert(t))
    => LET saved == tasks[t].saved
       IN  /\ Responds(t, Ok(saved.image, tasks[t].cache_duration_seconds))
           /\ last'.nImg = 0
           /\ last'.src = "disk"
           /\ imgs'[PairOf(tasks[t])].tag = "Success"
           /\ imgs'[PairOf(tasks[t])].image = saved.image
           /\ disk' = disk

\* Between the two steps nothing but a restart touches what the task read.
C7_KeepStep(t) ==
    (tasks[t].src = "disk" /\ ~CacheInsert(t) /\ ~Restart)
    => tasks'[t] = tasks[t]

C7_DiskWarmCache ==
    [][\A t \in Tasks : /\ C7_MissStep(t) /\ C7_ReadStep(t)
                        /\ C7_AnswerStep(t) /\ C7_KeepStep(t)]_vars

\* A request has been answered from the disk, without a fetch, with the Image
\* of the envelope, and the Image Cache holds it.
C7_Witness ==
    LET pair == <<"Thumbnail", U1>>
    IN  /\ last # NoResponse
        /\ last.tag = "Ok" /\ last.src = "disk" /\ last.nImg = 0
        /\ disk[pair_to_path(pair)].tag = "Saved"
        /\ last.res.image = disk[pair_to_path(pair)].image
        /\ imgs[pair].tag = "Success"
        /\ imgs[pair].image = last.res.image
        /\ last.res.image = ImgB

-----------------------------------------------------------------------------
\* C8. Memory hit on Success: whenever the Image Cache holds a Success entry
\* for the requested key at the lookup, the request returns the cached Image,
\* makes no upstream fetch and no disk access, and leaves the cache unchanged.
C8_PlainStep(t) ==
    \A r \in PlainImgRequests :
        LET img == imgs[PlainPair(r)]
        IN  (img.tag = "Success" /\ Start(t, r))
            => /\ Responds(t, Ok(img.image, 2592000))
               /\ last'.src = "memory"
               /\ last'.nImg = 0 /\ last'.nDisk = 0
               /\ UNCHANGED <<imgs, disk, magic>>

C8_ResolvedStep(t) ==
    (AtImgLookup(t) /\ ImgLookup(t))
    => LET img == imgs[PairOf(tasks[t])]
       IN  img.tag = "Success"
           => /\ Responds(t, Ok(img.image, tasks[t].cache_duration_seconds))
              /\ last'.src = "memory"
              /\ last'.nImg = 0 /\ last'.nDisk = 0
              /\ UNCHANGED <<imgs, disk, magic>>

C8_MemoryHit == [][\A t \in Tasks : C8_PlainStep(t) /\ C8_ResolvedStep(t)]_vars

\* A magic request has been answered from an entry of the Image Cache that is
\* more than an hour old.
C8_Witness ==
    LET img == imgs[<<"Thumbnail", U1>>]
    IN  /\ last # NoResponse
        /\ last.tag = "Ok" /\ last.src = "memory" /\ last.is_magic
        /\ last.nImg = 0 /\ last.nDisk = 0
        /\ img.tag = "Success"
        /\ last.res.image = img.image
        /\ now - img.time > 3600

-----------------------------------------------------------------------------
\* C9. Advertised cache duration: every successful image response carries 30
\* days when the request is not magic, 1 hour when it is magic and the
\* resolved status is exactly 200, and 0 when it is magic and the resolved
\* status is anything else, whether the resolution was fresh or cached
\* (stale or not) and whether the image came from memory, disk, upstream or a
\* data URI.
\* A fresh resolution goes on with the status and the URL upstream answered.
C9_ResolveStep(t) ==
    tasks[t].pc = "magic_fetch"
    => \A a \in ResolvedAnswers :
           MagicFetchDone(t, a)
           => /\ tasks'[t].pc = "img_lookup"
              /\ tasks'[t].status = a.status
              /\ tasks'[t].url = a.body

\* A cached resolution goes on with the status and the URL of the entry.
C9_CachedStep(t) ==
    (tasks[t].pc = "idle" /\ tasks'[t].pc = "img_lookup")
    => \A r \in MagicResolveRequests :
           (magic[MagicUrlOf(r)].tag = "Success" /\ Start(t, r))
           => /\ tasks'[t].status = magic[MagicUrlOf(r)].status
              /\ tasks'[t].url = magic[MagicUrlOf(r)].url

\* The response carries the status the request went on with, and its duration.
C9_ResponseStep(t) ==
    (tasks[t].pc # "idle" /\ tasks'[t] = IdleTask /\ last' # NoResponse)
    => /\ last'.status = tasks[t].status
       /\ last'.is_magic = tasks[t].is_magic

C9_Advertised ==
    (last # NoResponse /\ last.tag = "Ok")
    => /\ last.src \in {"memory", "disk", "upstream", "data"}
       /\ last.res.cache_duration_seconds =
              IF ~last.is_magic THEN 2592000
              ELSE IF last.status = 200 THEN 3600
              ELSE 0

C9_CacheDuration ==
    /\ [][\A t \in Tasks : /\ C9_ResolveStep(t) /\ C9_CachedStep(t)
                           /\ C9_ResponseStep(t)]_vars
    /\ []C9_Advertised

\* A magic request served from the disk through a stale cached resolution of
\* status 204 has been answered with duration 0.
C9_Witness ==
    /\ last # NoResponse
    /\ last.tag = "Ok" /\ last.is_magic /\ last.status = 204
    /\ last.spawned = 1 /\ last.src = "disk"
    /\ last.res.cache_duration_seconds = 0

-----------------------------------------------------------------------------
\* C10. Non-200 magic resolution: a magic URL whose upstream resolution has
\* any status other than 200 yields a response with cache duration 0, and the
\* outcome is recorded in the magic cache so that a second identical request
\* within the failure backoff window makes no magic fetch.

\* The answers of a magic URL that carry a status other than 200 and a
\* readable text/plain body.
C10_NonOkAnswers ==
    {a \in MagicAnswers : /\ a.sent /\ a.status # 200 /\ a.has_ctype
                          /\ StartsWith(a.ctype, TextPlain) /\ a.readable}

\* The claim as it stands: such a resolution is recorded and the request goes
\* on to an image response with duration 0.
C10_OriginalStep(t) ==
    tasks[t].pc = "magic_fetch"
    => \A a \in C10_NonOkAnswers :
           MagicFetchDone(t, a)
           => /\ magic'[tasks[t].url] # Absent
              /\ tasks'[t].pc = "img_lookup"
              /\ tasks'[t].cache_duration_seconds = 0

C10_Original == [][\A t \in Tasks : C10_OriginalStep(t)]_vars

\* As the code has it.  A successful status other than 200 is recorded as
\* Success and the request goes on with duration 0; any other status is
\* recorded as Failed and answered with the UpstreamStatus error, which has no
\* cache duration.
C10_ResolveStep(t) ==
    tasks[t].pc = "magic_fetch"
    => \A a \in C10_NonOkAnswers :
           MagicFetchDone(t, a)
           => IF a.status >= 200 /\ a.status < 300
              THEN /\ magic'[tasks[t].url] = MagicSuccess(a.body, a.status, now)
                   /\ tasks'[t].pc = "img_lookup"
                   /\ tasks'[t].status = a.status
                   /\ tasks'[t].cache_duration_seconds = 0
                   /\ last' = last
              ELSE /\ magic'[tasks[t].url] =
                          Failed(ErrStatus(a.status), Append(tasks[t].attempts, now))
                   /\ Responds(t, Error(ErrStatus(a.status)))

\* Every image response of a request that went on with a status other than
\* 200 carries duration 0.
C10_ResponseStep(t) ==
    (/\ tasks[t].is_magic /\ tasks[t].pc \in {"img_lookup", "img_fetch", "cache_insert"}
     /\ tasks[t].status # 200
     /\ tasks'[t] = IdleTask /\ last' # NoResponse /\ last'.tag = "Ok")
    => last'.res.cache_duration_seconds = 0

\* A second request makes no magic fetch: on the Success entry at any age, on
\* the Failed entry within its backoff window; the entry stays as recorded.
C10_SecondStep(t) ==
    (tasks[t].pc = "idle" /\ (tasks'[t] # tasks[t] \/ last' # last))
    => \A r \in MagicResolveRequests :
           LET m == magic[MagicUrlOf(r)]
           IN  /\ (m.tag = "Success" /\ m.status # 200 /\ Start(t, r))
                  => /\ tasks'[t].nMagic = 0
                     /\ tasks'[t].pc = "img_lookup"
                     /\ tasks'[t].cache_duration_seconds = 0
                     /\ magic' = magic
               /\ (Suppressed(m) /\ m.err.e = "Status" /\ Start(t, r))
                  => /\ Responds(t, Error(m.err))
                     /\ last'.nMagic = 0
                     /\ magic' = magic

C10_NonOkResolution ==
    [][\A t \in Tasks : /\ C10_ResolveStep(t) /\ C10_ResponseStep(t)
                        /\ C10_SecondStep(t)]_vars

\* A resolution answered 404 is recorded as Failed, and the request after it,
\* within the window, has been answered with that error without a fetch.
C10_Witness ==
    /\ last # NoResponse
    /\ last.tag = "Err" /\ last.res.err = ErrStatus(404)
    /\ last.is_magic /\ last.nMagic = 0
    /\ magic[M1].tag = "Failed"
    /\ magic[M1].err = ErrStatus(404)

-----------------------------------------------------------------------------
\* C11. Data-URI bypass: when the URL to serve (after the resolution, if any)
\* begins with data:image/, the request, whether it decodes or fails with
\* InvalidDataUrl, makes no image upstream fetch, creates no disk file and
\* leaves the Image Cache unchanged; a request that is not magic leaves the
\* magic cache unchanged as well.
PlainDataRequests ==
    {r \in AllRequests : /\ r.img_type # MagicKeyword
                         /\ ParseImgType(r.img_type) # "Invalid"
                         /\ StartsWith(r.url, DataImagePrefix)}

\* What the shortcut answers for a URL
C11_Answer(url, dur) ==
    IF DecodeDataUrl(url).ok THEN Ok(DecodeDataUrl(url).image, dur)
    ELSE Error(Err("InvalidDataUrl"))

C11_PlainStep(t) ==
    MayStart(t)
    => \A r \in PlainDataRequests :
           Start(t, r)
           => /\ Responds(t, C11_Answer(r.url, 2592000))
              /\ last'.nImg = 0 /\ last'.nDisk = 0 /\ last'.nMagic = 0
              /\ UNCHANGED <<imgs, disk, magic, refresh>>

\* A magic request whose resolution, fresh or cached, is a data URI
C11_ResolvedStep(t) ==
    (/\ tasks[t].pc = "img_lookup"
     /\ StartsWith(tasks[t].url, DataImagePrefix)
     /\ ImgLookup(t))
    => /\ Responds(t, C11_Answer(tasks[t].url, tasks[t].cache_duration_seconds))
       /\ last'.nImg = 0 /\ last'.nDisk = 0
       /\ UNCHANGED <<imgs, disk, magic, refresh>>

\* No step of a request before the lookup touches the Image Cache or the disk.
C11_BeforeStep(t) ==
    (/\ tasks'[t].pc \in {"magic_fetch", "img_lookup"}
     /\ tasks'[t] # tasks[t])
    => /\ UNCHANGED <<imgs, disk>>
       /\ tasks'[t].nImg = 0 /\ tasks'[t].nDisk = 0

C11_DataUriBypass ==
    [][\A t \in Tasks : /\ C11_PlainStep(t) /\ C11_ResolvedStep(t)
                        /\ C11_BeforeStep(t)]_vars

\* A magic request resolved to a data URI that does not decode has been
\* answered InvalidDataUrl, while the Image Cache and the disk hold an image.
C11_Witness ==
    /\ last # NoResponse
    /\ last.tag = "Err" /\ last.res.err = Err("InvalidDataUrl")
    /\ last.is_magic /\ last.nMagic = 1 /\ last.nImg = 0 /\ last.nDisk = 0
    /\ imgs[<<"Thumbnail", U1>>].tag = "Success"
    /\ disk[pair_to_path(<<"Thumbnail", U1>>)].tag = "Saved"
    /\ magic[M1].tag = "Success"

-----------------------------------------------------------------------------
\* C12. Only upstream errors are cached: in every reachable state the error
\* of every Failed entry of the Image Cache and of the magic cache is one of
\* RequestFailed, UnsupportedContentType, BodyReadFailed, TextReadFailed and
\* UpstreamStatus; InvalidRescaleType, InvalidDataUrl and Purge are never
\* stored, and a request that ends in InvalidRescaleType changes neither cache.
UpstreamErrors ==
    {"RequestFailed", "UnsupportedContentType", "BodyReadFailed", "TextReadFailed",
     "Status"}

C12_Stored ==
    /\ \A p \in Pairs : imgs[p].tag = "Failed" => imgs[p].err.e \in UpstreamErrors
    /\ \A u \in MagicUrls : magic[u].tag = "Failed" => magic[u].err.e \in UpstreamErrors

\* However a request comes to answer InvalidRescaleType, it has made no fetch
\* and its last step changes neither cache.
C12_AnswerStep ==
    (last' # last /\ last'.tag = "Err" /\ last'.res.err = Err("InvalidRescaleType"))
    => /\ last'.nImg = 0 /\ last'.nMagic = 0 /\ last'.nDisk = 0
       /\ UNCHANGED <<imgs, magic>>

C12_OnlyUpstreamErrors ==
    /\ []C12_Stored
    /\ [][C12_AnswerStep]_vars

\* Both caches hold a Failed entry, and a magic request with a bad rescale
\* type has just been answered InvalidRescaleType.
C12_Witness ==
    /\ last # NoResponse
    /\ last.tag = "Err" /\ last.res.err = Err("InvalidRescaleType") /\ last.is_magic
    /\ imgs[<<"Thumbnail", U1>>].tag = "Failed"
    /\ imgs[<<"Thumbnail", U1>>].err = Err("BodyReadFailed")
    /\ Len(imgs[<<"Thumbnail", U1>>].attempts) = 2
    /\ magic[M1].tag = "Failed"
    /\ magic[M1].err = Err("TextReadFailed")

-----------------------------------------------------------------------------
\* C13. Attempts history, under any interleaving of requests: for every
\* Failed entry of either cache the attempts list is strictly increasing in
\* time, and its length is the number of consecutive failed upstream fetches
\* for the key since the last recorded success (or the start of the process).
AllImgAnswers ==
    ImgAnswers \cup FewImgAnswers \cup OneImgAnswer \cup ErrImgAnswers
        \cup BackoffImgAnswers
AllMagicAnswers ==
    MagicAnswers \cup FewMagicAnswers \cup ResolvedAnswers \cup DataAnswers
        \cup ErrMagicAnswers \cup BackoffMagicAnswers
FailedImgAnswers == {a \in AllImgAnswers : ~fetch_img(a).ok}
FailedMagicAnswers == {a \in AllMagicAnswers : ~fetch_magic_url(a).ok}

StrictlyIncreasing(attempts) ==
    \A i \in 1..(Len(attempts) - 1) : attempts[i] < attempts[i + 1]

\* The consecutive failures an entry stands for: none for a success or for a
\* key without an entry.
Failures(e) == IF e.tag = "Failed" THEN Len(e.attempts) ELSE 0

C13_Increasing ==
    /\ \A p \in Pairs : imgs[p].tag = "Failed" => StrictlyIncreasing(imgs[p].attempts)
    /\ \A u \in MagicUrls : magic[u].tag = "Failed" => StrictlyIncreasing(magic[u].attempts)

\* Every failed fetch adds one to the failures the entry stands for.
C13_ImgFailStep(t) ==
    tasks[t].pc = "img_fetch"
    => \A a \in FailedImgAnswers :
           ImgFetchDone(t, a, "ok")
           => Failures(imgs'[PairOf(tasks[t])]) = Failures(imgs[PairOf(tasks[t])]) + 1

C13_MagicFailStep(t) ==
    tasks[t].pc = "magic_fetch"
    => \A a \in FailedMagicAnswers :
           MagicFetchDone(t, a)
           => Failures(magic'[tasks[t].url]) = Failures(magic[tasks[t].url]) + 1

C13_RefreshFailStep ==
    \A u \in MagicUrls :
        refresh'[u] < refresh[u]
        => \A a \in FailedMagicAnswers :
               RefreshDone(u, a) => Failures(magic'[u]) = Failures(magic[u]) + 1

C13_Counted ==
    [][/\ \A t \in Tasks : C13_ImgFailStep(t) /\ C13_MagicFailStep(t)
       /\ C13_RefreshFailStep]_vars

C13_AttemptsHistory == []C13_Increasing /\ C13_Counted

-----------------------------------------------------------------------------
\* C14. Backoff arithmetic is well defined for every reachable Failed entry:
\* whenever the timeout is computed the attempts count n is at least 1, and
\* for every n >= 1, also when 2^(n-1) exceeds the 64-bit range, the computed
\* timeout is min(3600, 2^(n-1)) seconds, so it is non-decreasing in n and
\* never drops below the cap once the cap is reached.
FailedEntries ==
    {imgs[p] : p \in {q \in Pairs : imgs[q].tag = "Failed"}}
        \cup {magic[u] : u \in {v \in MagicUrls : magic[v].tag = "Failed"}}

\* No entry is Failed with an empty history (n - 1 does not underflow).
C14_NonEmpty == \A e \in FailedEntries : Len(e.attempts) >= 1

\* The timeout computed for an entry is min(3600, 2^(n-1)), and the one
\* computed after one more failure is not smaller.
C14_TimeoutIsMin ==
    \A e \in FailedEntries :
        LET n == Len(e.attempts)
        IN  n >= 1 => /\ Timeout(n) = Window(n)
                      /\ Timeout(n) <= Timeout(n + 1)

\* No lookup ends in a panic.
C14_NoPanic == last # NoResponse => last.tag # "Panic"

C14_Arithmetic == C14_NonEmpty /\ C14_TimeoutIsMin /\ C14_NoPanic

-----------------------------------------------------------------------------
\* C15. Lock discipline: each cache mutex is held only for a single map get,
\* insert or remove of one entry; in every reachable state no task that is
\* performing an outbound fetch (image, magic or background refresh) or disk
\* I/O holds either cache lock, so a slow or hanging upstream call never
\* blocks the cache lookups of other requests.
HeldBy(who) == {m \in Mutexes : locks[m] = who}

\* A task waiting for a fetch or at its disk I/O, and a refresh in flight,
\* hold no mutex.
C15_FetchingHoldsNothing ==
    /\ \A t \in Tasks :
           tasks[t].pc \in {"magic_fetch", "img_fetch", "disk_read", "cache_insert"}
               => HeldBy(t) = {}
    /\ (\E u \in MagicUrls : refresh[u] > 0) => HeldBy("refresh") = {}

\* Between the steps both mutexes are free: a lookup never finds one taken.
C15_Released == \A m \in Mutexes : locks[m] = "none"

\* A step touches at most one entry of one map, unless the process restarts.
C15_SingleEntryStep ==
    \/ Cardinality({p \in Pairs : imgs'[p] # imgs[p]})
           + Cardinality({u \in MagicUrls : magic'[u] # magic[u]}) <= 1
    \/ Restart

C15_LockDiscipline ==
    /\ [](C15_FetchingHoldsNothing /\ C15_Released)
    /\ [][C15_SingleEntryStep]_vars

\* One request waits for its fetch while the other has made its lookup and
\* is at its disk read.
C15_Witness ==
    \E t, u \in Tasks :
        /\ t # u
        /\ tasks[t].pc = "img_fetch"
        /\ tasks[u].pc = "disk_read"
        /\ locks = Unlocked

-----------------------------------------------------------------------------
\* C16. Memory/disk agreement under any interleaving of concurrent requests:
\* in every reachable state, each image key whose in-memory entry is Success
\* has an envelope on disk for the same key holding the same Image as the
\* in-memory entry.
C16_OnDisk(p) ==
    LET f == disk[pair_to_path(p)]
    IN  /\ f.tag = "Saved"
        /\ f.pair = p
        /\ f.image = imgs[p].image

C16_Agreement == \A p \in Pairs : imgs[p].tag = "Success" => C16_OnDisk(p)

\* What every Success entry does have on disk: a file at the path of its key.
C16_FileExists ==
    \A p \in Pairs : imgs[p].tag = "Success" => disk[pair_to_path(p)].tag # "NoFile"

-----------------------------------------------------------------------------
\* C17. Disk-write failure: when persisting a freshly fetched image fails,
\* the in-flight request fails without returning an image, no Success and no
\* Failed entry is installed in the in-memory Image Cache for that key, and
\* both caches remain usable by every other request: the failure happens
\* while no cache lock is held.
FetchedImgAnswers == {a \in AllImgAnswers : fetch_img(a).ok}
FailedWrites == DiskOutcomes \ {"ok"}

C17_FailStep(t) ==
    tasks[t].pc = "img_fetch" =>
        \A a \in FetchedImgAnswers, w \in FailedWrites :
            ImgFetchDone(t, a, w) =>
                /\ last'.tag = "Panic"
                /\ tasks'[t] = IdleTask
                /\ imgs' = imgs
                /\ magic' = magic
                /\ HeldBy(t) = {}
                /\ locks' = Unlocked

\* A request that ended in the panic sent no image.
C17_NoImage == (last # NoResponse /\ last.tag = "Panic") => last.res = Panicked

C17_DiskWriteFailure ==
    /\ []C17_NoImage
    /\ [][\A t \in Tasks : C17_FailStep(t)]_vars

\* The write of a first fetch failed: the request is over, its key has no
\* entry, and the other request has made its lookup since.
C17_Witness ==
    /\ last # NoResponse
    /\ last.tag = "Panic"
    /\ last.nImg = 1
    /\ imgs[<<"Thumbnail", U1>>] = Absent
    /\ locks = Unlocked
    /\ \E t \in Tasks : tasks[t].pc = "disk_read"

-----------------------------------------------------------------------------
\* C18. Image Success is absorbing under any interleaving: once the
\* in-memory Image Cache holds a Success entry for a key, that entry is never
\* replaced by a Failed entry, so every request for that key that starts
\* afterwards returns an image and performs no upstream fetch, even when
\* other requests for the same key that started before the success are
\* still in flight.
C18_KeepStep ==
    \A p \in Pairs : imgs[p].tag = "Success" => imgs'[p].tag # "Failed"

\* A request that starts on a Success entry is answered from it.
C18_ServeStep(t) ==
    MayStart(t) =>
        \A r \in PlainImgRequests :
            (imgs[PlainPair(r)].tag = "Success" /\ Start(t, r)) =>
                /\ last'.tag = "Ok"
                /\ last'.res.image = imgs[PlainPair(r)].image
                /\ last'.nImg = 0

C18_SuccessAbsorbing == [][C18_KeepStep]_vars

C18_ServedFromSuccess == [][\A t \in Tasks : C18_ServeStep(t)]_vars

-----------------------------------------------------------------------------
\* C19. Purge is not undone by earlier work: after a purge of a magic URL
\* completes, the magic cache contains no entry for that URL until some
\* resolve request for that URL that is issued after the purge writes one; a
\* foreground resolution or background refresh that began its fetch before
\* the purge never re-installs an entry after it.
\*
\* A refresh is spawned from a Success entry, and an entry is removed by a
\* purge only (a restart ends the refreshes too): a refresh in flight on a
\* URL without an entry began before the purge that removed the entry.

\* The foreground resolution of task t writes the entry of u in this step.
C19_ForegroundWrite(t, u) ==
    /\ tasks[t].pc = "magic_fetch"
    /\ tasks[t].url = u
    /\ tasks'[t].pc # "magic_fetch"

\* An entry appears for a URL without one only by a foreground resolution.
C19_WriteStep ==
    \A u \in MagicUrls :
        (magic[u] = Absent /\ magic'[u] # Absent)
            => \E t \in Tasks : C19_ForegroundWrite(t, u)

C19_PurgeNotUndone == [][C19_WriteStep]_vars

-----------------------------------------------------------------------------
\* C20. Failed background refresh: when a background refresh of a stale magic
\* Success entry fails, it replaces that entry with a Failed entry whose
\* attempts list contains exactly one timestamp (the refresh starts from an
\* empty history), so requests arriving within the next 1 second receive the
\* error instead of the previously resolved URL, and the first request after
\* that second performs a fresh synchronous fetch.

\* A background refresh ends in this step with a failed fetch: the entry
\* becomes Failed with the one timestamp of this failure.
C20_RefreshStep ==
    \A u \in MagicUrls :
        (refresh[u] > 0 /\ refresh'[u] = refresh[u] - 1) =>
            \A a \in FailedMagicAnswers :
                RefreshDone(u, a) =>
                    /\ magic'[u].tag = "Failed"
                    /\ magic'[u].err = fetch_magic_url(a).err
                    /\ magic'[u].attempts = <<now>>

\* An entry as a failed refresh leaves it.
OneFailure(e) == e.tag = "Failed" /\ Len(e.attempts) = 1

\* A request less than one second after the failure gets the error, and
\* makes no fetch; a request from one second on fetches before it answers.
C20_RequestStep(t) ==
    MayStart(t) =>
        \A r \in MagicResolveRequests :
            LET e == magic[MagicUrlOf(r)]
            IN  (OneFailure(e) /\ Start(t, r)) =>
                    IF now - e.attempts[1] < 1
                    THEN /\ Responds(t, Error(e.err))
                         /\ last'.nMagic = 0 /\ last'.nImg = 0
                         /\ last'.spawned = 0
                         /\ UNCHANGED <<magic, refresh>>
                    ELSE /\ tasks'[t].pc = "magic_fetch"
                         /\ tasks'[t].nMagic = 1
                         /\ tasks'[t].spawned = 0
                         /\ UNCHANGED <<magic, refresh, last>>

C20_FailedRefresh ==
    [][C20_RefreshStep /\ \A t \in Tasks : C20_RequestStep(t)]_vars

\* The request that was served from the stale entry and spawned the refresh
\* is the last one answered, no request is in progress, and the entry is
\* now the failure of that refresh, with its one timestamp.
C20_Witness ==
    /\ last # NoResponse
    /\ last.tag = "Ok" /\ last.is_magic
    /\ last.spawned = 1
    /\ \A t \in Tasks : tasks[t].pc = "idle"
    /\ refresh[M1] = 0
    /\ OneFailure(magic[M1])
    /\ magic[M1].attempts = <<now>>

====
